---- MODULE Spec2Model ----
(***************************************************************************)
(* PDF analyzer: the chat session (PDFChat), its parent (PDFAnalyzer), the *)
(* upload component (PDFUpload) and the two API routes, as one state       *)
(* machine.  The repository holds two PDFChat components: the one under    *)
(* src/components (it awaits response.json()) and the streaming one of the *)
(* implementation guide (it reads the body chunk by chunk).  The variable  *)
(* build selects which of the two is deployed, together with the matching  *)
(* upload route; the chat route is src/app/api/chat/route.ts in both.      *)
(*                                                                         *)
(* Text is a sequence of one-character strings, so that concatenation and  *)
(* trimming are computed and not assumed.  A response body is a sequence   *)
(* of wire tokens; a network read delivers any non-empty prefix of the     *)
(* bytes that have been sent and not yet read.                             *)
(***************************************************************************)
EXTENDS Integers, Sequences, FiniteSets, TLC

\* ------------------------------------------------------------------ bounds
\* Spec: the session under uploads, resets and turns, with short streams.
MaxTurns == 2
MaxUploads == 2
MaxEvents == 1
\* SpecStream: one turn at a time in detail, with longer streams.
StreamTurns == 1
StreamUploads == 1
StreamEvents == 3
\* SpecChain: two turns in a row against one corpus, each with a stream long
\* enough for the service to announce an id and complete.
ChainTurns == 2
ChainUploads == 1
ChainEvents == 2
\* SpecScenario: one turn whose upstream stream is the scripted one.
ScenarioTurns == 1
ScenarioUploads == 1
\* SpecDecode: the client is handed a response body of up to DecodeFrames
\* frames, well-formed or not.
DecodeFrames == 4
\* SpecLive: one turn, under the scheduling the runtime guarantees.
LiveTurns == 1
LiveUploads == 1
LiveEvents == 1
\* SpecClock: two turns against one corpus, with the clock free to advance up
\* to MaxClock between any two steps.
ClockTurns == 2
ClockUploads == 1
ClockEvents == 1
MaxClock == 2

\* ------------------------------------------------------------ JS values
NULL == "null"
UNDEFINED == "undefined"

\* JavaScript truthiness of an identifier-valued cell.
Truthy(v) == v \notin {NULL, UNDEFINED, ""}

Last(s) == s[Len(s)]
Front(s) == SubSeq(s, 1, Len(s) - 1)

RECURSIVE TrimStart(_)
TrimStart(s) == IF s # <<>> /\ Head(s) = " " THEN TrimStart(Tail(s)) ELSE s

RECURSIVE TrimEnd(_)
TrimEnd(s) == IF s # <<>> /\ Last(s) = " " THEN TrimEnd(Front(s)) ELSE s

\* String.prototype.trim
Trim(s) == TrimEnd(TrimStart(s))

\* What the user may have in the textarea: nothing, blanks, a question.
Inputs == {<<>>, <<" ">>, <<"q", " ">>}

\* --------------------------------------------------------------- wire format
NoObj == [type |-> "none"]
Lit(c) == [c |-> c, o |-> NoObj]
NL == Lit("\n")
DataPrefix == Lit("data: ")

\* JSON.stringify of an object: one token of JSON text.
Stringify(obj) == <<[c |-> "json", o |-> obj]>>

\* JSON.parse succeeds exactly on a complete JSON text.
CanParse(s) == Len(s) = 1 /\ s[1].c = "json"
Parse(s) == s[1].o

\* `data: ${JSON.stringify(obj)}\n\n`
Frame(obj) == <<DataPrefix>> \o Stringify(obj) \o <<NL, NL>>

RECURSIVE Split(_)
\* String.prototype.split('\n')
Split(s) ==
  IF \A i \in 1..Len(s) : s[i] # NL THEN <<s>>
  ELSE LET i == CHOOSE j \in 1..Len(s) : s[j] = NL /\ \A k \in 1..(j - 1) : s[k] # NL
       IN <<SubSeq(s, 1, i - 1)>> \o Split(SubSeq(s, i + 1, Len(s)))

\* line.startsWith('data: ')
StartsWithData(line) == line # <<>> /\ Head(line) = DataPrefix

\* ------------------------------------------------------- upstream service
RespIds == <<"r1", "r2", "r3", "r4">>
RespId(t) == RespIds[t]

FileCitation == [type |-> "file_citation", file_id |-> "f1", filename |-> "doc.pdf"]
UrlCitation == [type |-> "url_citation"]

UpstreamEvents(t) ==
  { [type |-> "response.created", response_id |-> RespId(t)],
    [type |-> "response.output_text.delta", delta |-> <<"a">>],
    [type |-> "response.output_text.delta", delta |-> <<"b">>],
    [type |-> "response.output_text_annotation.added", annotation |-> FileCitation],
    [type |-> "response.output_text_annotation.added", annotation |-> UrlCitation],
    [type |-> "response.file_search_call.in_progress"],
    [type |-> "response.file_search_call.searching"],
    [type |-> "response.file_search_call.completed"],
    [type |-> "response.completed", usage |-> "usage"],
    [type |-> "error", error |-> "boom"] }

\* "The document discusses X." in the three deltas of the scripted turn.
DeltaThe == <<"T", "h", "e", " ">>
DeltaDocument == <<"d", "o", "c", "u", "m", "e", "n", "t", " ">>
DeltaDiscusses == <<"d", "i", "s", "c", "u", "s", "s", "e", "s", " ", "X", ".">>

\* The scripted upstream stream of a first turn: created, three text deltas,
\* one file citation, completed.
Scenario ==
  << [type |-> "response.created", response_id |-> RespId(1)],
     [type |-> "response.output_text.delta", delta |-> DeltaThe],
     [type |-> "response.output_text.delta", delta |-> DeltaDocument],
     [type |-> "response.output_text.delta", delta |-> DeltaDiscusses],
     [type |-> "response.output_text_annotation.added", annotation |-> FileCitation],
     [type |-> "response.completed", usage |-> "usage"] >>

\* ------------------------------------------------------------- chat route
\* The locals of ReadableStream.start.
RouteLocals0 == [responseContent |-> <<>>, citations |-> <<>>, responseId |-> "", usage |-> NULL]

\* The route's accumulation with = written for +=.
RouteAssignDelta(responseContent, delta) == delta

\* responseContent += event.delta
RouteAppendDelta(responseContent, delta) == responseContent \o delta

\* One iteration of `for await (const event of stream)`: the new locals and
\* the objects enqueued as frames.
RouteSwitch(loc, event) ==
  CASE event.type = "response.created" ->
         [loc |-> [loc EXCEPT !.responseId = event.response_id], out |-> <<>>]
    [] event.type = "response.output_text.delta" ->
         [loc |-> [loc EXCEPT !.responseContent = RouteAppendDelta(@, event.delta)],
          out |-> <<[type |-> "delta", content |-> event.delta]>>]
    [] event.type = "response.output_text_annotation.added" ->
         [loc |-> IF event.annotation.type = "file_citation"
                  THEN [loc EXCEPT !.citations =
                          Append(@, [file_id |-> event.annotation.file_id,
                                     filename |-> event.annotation.filename])]
                  ELSE loc,
          out |-> <<>>]
    [] event.type = "response.file_search_call.in_progress" ->
         [loc |-> loc,
          out |-> <<[type |-> "status", message |-> "Searching through your PDF..."]>>]
    [] event.type = "response.completed" ->
         [loc |-> [loc EXCEPT !.usage = event.usage],
          out |-> <<[type |-> "complete", response |-> loc.responseContent,
                     citations |-> loc.citations, responseId |-> loc.responseId,
                     usage |-> event.usage]>>]
    [] event.type = "error" ->
         [loc |-> loc, out |-> <<[type |-> "error", error |-> event.error]>>]
    [] OTHER -> [loc |-> loc, out |-> <<>>]

\* A property of the parsed request body: undefined when the key is not there.
Field(req, name) == IF name \in DOMAIN req THEN req[name] ELSE UNDEFINED

\* The status the route answers with before any streaming.  The log statement
\* ahead of the checks calls message.substring, which throws into the catch
\* block when the body has no message.
RouteStatus(req, createThrows) ==
  IF "message" \notin DOMAIN req THEN 500
  ELSE IF req.message = <<>> THEN 400
  ELSE IF ~Truthy(Field(req, "vectorStoreId")) THEN 400
  ELSE IF createThrows THEN 500
  ELSE 200

\* The route reaches openai.responses.create.
RouteAsks(req) ==
  /\ "message" \in DOMAIN req
  /\ req.message # <<>>
  /\ Truthy(Field(req, "vectorStoreId"))

\* --------------------------------------------------- streaming chat client
ClientLocals0 == [fullResponse |-> <<>>, citations |-> <<>>, responseId |-> "",
                  decoded |-> <<>>]

\* The accumulation with = written for +=.
ClientAssignDelta(fullResponse, content) == content

\* fullResponse += data.content
ClientAppendDelta(fullResponse, content) == fullResponse \o content

\* The loop body without the leniency: a data line that does not parse, or
\* parses to an object of a type without a branch, discards the text so far.
ProcessLineNoSkip(acc, line) ==
  IF ~StartsWithData(line) THEN acc
  ELSE IF ~CanParse(Tail(line)) THEN [acc EXCEPT !.fullResponse = <<>>]
  ELSE LET data == Parse(Tail(line))
           seen == [acc EXCEPT !.decoded = Append(@, data)]
       IN IF data.type = "delta" /\ data.content # <<>>
          THEN [seen EXCEPT !.fullResponse = ClientAppendDelta(acc.fullResponse, data.content)]
          ELSE IF data.type = "citations"
          THEN [seen EXCEPT !.citations =
                  IF "citations" \in DOMAIN data THEN data.citations ELSE <<>>]
          ELSE IF data.type = "responseId"
          THEN [seen EXCEPT !.responseId = data.responseId]
          ELSE [seen EXCEPT !.fullResponse = <<>>]

\* The loop body with a branch that takes a status frame for answer text.
ProcessLineStatusAsText(acc, line) ==
  IF ~StartsWithData(line) THEN acc
  ELSE IF ~CanParse(Tail(line)) THEN acc
  ELSE LET data == Parse(Tail(line))
           seen == [acc EXCEPT !.decoded = Append(@, data)]
       IN IF data.type = "delta" /\ data.content # <<>>
          THEN [seen EXCEPT !.fullResponse = ClientAppendDelta(acc.fullResponse, data.content)]
          ELSE IF data.type = "citations"
          THEN [seen EXCEPT !.citations =
                  IF "citations" \in DOMAIN data THEN data.citations ELSE <<>>]
          ELSE IF data.type = "responseId"
          THEN [seen EXCEPT !.responseId = data.responseId]
          ELSE IF data.type = "status"
          THEN [seen EXCEPT !.fullResponse = ClientAppendDelta(acc.fullResponse, <<data.message>>)]
          ELSE seen

\* The body of `for (const line of lines)`.  decoded is the history of the
\* objects JSON.parse returned.
ProcessLine(acc, line) ==
  IF ~StartsWithData(line) THEN acc
  ELSE IF ~CanParse(Tail(line)) THEN acc
  ELSE LET data == Parse(Tail(line))
           seen == [acc EXCEPT !.decoded = Append(@, data)]
       IN IF data.type = "delta" /\ data.content # <<>>
          THEN LET full == ClientAppendDelta(acc.fullResponse, data.content)
               IN [seen EXCEPT !.fullResponse = full]
          ELSE IF data.type = "citations"
          THEN [seen EXCEPT !.citations =
                  IF "citations" \in DOMAIN data THEN data.citations ELSE <<>>]
          ELSE IF data.type = "responseId"
          THEN [seen EXCEPT !.responseId = data.responseId]
          ELSE seen

RECURSIVE ProcessLines(_, _)
ProcessLines(acc, lines) ==
  IF lines = <<>> THEN acc ELSE ProcessLines(ProcessLine(acc, Head(lines)), Tail(lines))

\* new TextDecoder().decode(value), split, and the loop over the lines.
ProcessChunk(acc, chunk) == ProcessLines(acc, Split(chunk))

\* ------------------------------------------------------------------ state
VARIABLES
  build,            \* "src": components/PDFChat.tsx and api/upload/route.ts;
                    \* "guide": the streaming PDFChat and the upload route of the guide
  envStore,         \* process.env.OPENAI_VECTOR_STORE_ID
  vectorStoreId,    \* PDFAnalyzer
  newPDFUploaded,   \* PDFAnalyzer
  timers,           \* pending setTimeout(..., 100) callbacks
  messages,         \* PDFChat
  ids,              \* the id fields of messages, in the same order
  now,              \* Date.now()
  input,
  isLoading,
  error,
  lastResponseId,
  streamingMessage,
  isStreaming,
  uploadedFiles,    \* PDFUpload
  isUploading,
  calls,            \* the sendMessage invocations that have not returned, by turn number
  nTurns,           \* sendMessage invocations accepted so far
  tokenOrigin,      \* history: the vectorStoreId of the turn that wrote lastResponseId
  chainId,          \* history: the id the service gave the last turn that completed
                    \* and was committed since the last reset
  last              \* history: what the last step did

vars == <<build, envStore, vectorStoreId, newPDFUploaded, timers, messages, ids, now, input,
          isLoading, error, lastResponseId, streamingMessage, isStreaming,
          uploadedFiles, isUploading, calls, nTurns, tokenOrigin, chainId, last>>

config == <<build, envStore>>
analyzer == <<vectorStoreId, newPDFUploaded, timers>>
upload == <<uploadedFiles, isUploading>>
chat == <<messages, input, isLoading, error, lastResponseId, streamingMessage,
          isStreaming, tokenOrigin, chainId, ids>>

Other == [op |-> "step"]

Init ==
  /\ build \in {"src", "guide"}
  /\ envStore \in IF build = "src" THEN {UNDEFINED, "vs_env"} ELSE {UNDEFINED}
  /\ vectorStoreId = UNDEFINED
  /\ newPDFUploaded = FALSE
  /\ timers = 0
  /\ messages = <<>>
  /\ ids = <<>>
  /\ now = 0
  /\ input = <<>>
  /\ isLoading = FALSE
  /\ error = NULL
  /\ lastResponseId = NULL
  /\ streamingMessage = <<>>
  /\ isStreaming = FALSE
  /\ uploadedFiles = <<>>
  /\ isUploading = FALSE
  /\ calls = <<>>
  /\ nTurns = 0
  /\ tokenOrigin = NULL
  /\ chainId = NULL
  /\ last = Other

\* ------------------------------------------------------------ PDFChat
ErrorText == "Failed to get AI response. Please try again."

\* The guard with && written for ||: it rejects only when all three tests fail.
SendGuardAllOf(inp, loading, vs) == ~(Trim(inp) = <<>> /\ loading /\ ~Truthy(vs))

\* The guard with the input tested untrimmed.
SendGuardNoTrim(inp, loading, vs) == inp # <<>> /\ ~loading /\ Truthy(vs)

\* if (!input.trim() || isLoading || !vectorStoreId) return;
SendGuard(inp, loading, vs) == Trim(inp) # <<>> /\ ~loading /\ Truthy(vs)

UserMessage(inp) ==
  [role |-> "user", content |-> Trim(inp), citations |-> <<>>, responseId |-> UNDEFINED]

AssistantMessage(content, citations, responseId) ==
  [role |-> "assistant", content |-> content, citations |-> citations,
   responseId |-> responseId]

\* The body of the fetch call, as the closure of the current render builds it.
RequestBody(inp, vs, prev) ==
  [message |-> Trim(inp), vectorStoreId |-> vs, previousResponseId |-> prev]

\* A sendMessage invocation suspended at `await fetch(...)`, with the request
\* it sent, the route's side of that request, and the history of the turn.
NewCall ==
  [pc |-> "fetch",
   req |-> RequestBody(input, vectorStoreId, lastResponseId),
   reqOrigin |-> tokenOrigin,
   status |-> 0, srv |-> "pending", n |-> 0, loc |-> RouteLocals0, wire |-> <<>>,
   acc |-> ClientLocals0,
   pre |-> [messages |-> messages, token |-> lastResponseId],
   wasReset |-> FALSE, sent |-> <<>>,
   ups |-> <<>>, asked |-> FALSE]

Live == DOMAIN calls
Without(t) == [u \in Live \ {t} |-> calls[u]]

\* onChange of the textarea, which is rendered only with a corpus handle and
\* is disabled while isLoading.
SetInput(v) ==
  /\ ~isLoading
  /\ Truthy(vectorStoreId)
  /\ v # input
  /\ input' = v
  /\ last' = Other
  /\ UNCHANGED <<config, now, analyzer, upload, calls, nTurns, messages, isLoading, error,
                 lastResponseId, streamingMessage, isStreaming, tokenOrigin, chainId, ids>>

\* sendMessage, up to its first await.
SendMessage(maxTurns) ==
  IF ~SendGuard(input, isLoading, vectorStoreId)
  THEN /\ last' = [op |-> "sendNoop"]
       /\ UNCHANGED <<config, now, analyzer, upload, chat, calls, nTurns>>
  ELSE /\ nTurns < maxTurns
       /\ messages' = Append(messages, UserMessage(input))
       /\ ids' = Append(ids, now)
       /\ input' = <<>>
       /\ isLoading' = TRUE
       /\ error' = NULL
       /\ isStreaming' = IF build = "guide" THEN TRUE ELSE isStreaming
       /\ streamingMessage' = IF build = "guide" THEN <<>> ELSE streamingMessage
       /\ nTurns' = nTurns + 1
       /\ calls' = calls @@ ((nTurns + 1) :> NewCall)
       /\ last' = [op |-> "send", t |-> nTurns + 1]
       /\ UNCHANGED <<config, now, analyzer, upload, lastResponseId, tokenOrigin, chainId>>

\* The catch block that also takes the turn's user message back.
CatchRollback(t, lost) ==
  /\ error' = ErrorText
  /\ now' = now + 1
  /\ messages' = calls[t].pre.messages
  /\ ids' = SubSeq(ids, 1, Len(calls[t].pre.messages))
  /\ isStreaming' = IF build = "guide" THEN FALSE ELSE isStreaming
  /\ streamingMessage' = IF build = "guide" THEN <<>> ELSE streamingMessage
  /\ isLoading' = FALSE
  /\ calls' = Without(t)
  /\ last' = [op |-> "finish", path |-> "catch", t |-> t, call |-> calls[t], lost |-> lost]
  /\ UNCHANGED <<config, analyzer, upload, input, lastResponseId, tokenOrigin, chainId,
                 nTurns>>

\* The catch block that sends the request once more instead of giving up.
CatchRetry(t, lost) ==
  /\ error' = ErrorText
  /\ now' = now + 1
  /\ calls' = [calls EXCEPT ![t] = [@ EXCEPT !.pc = "fetch", !.srv = "pending",
                                               !.status = 0, !.wire = <<>>]]
  /\ last' = [op |-> "finish", path |-> "catch", t |-> t, call |-> calls[t], lost |-> lost]
  /\ UNCHANGED <<config, analyzer, upload, messages, input, isLoading, isStreaming,
                 streamingMessage, lastResponseId, tokenOrigin, chainId, ids, nTurns>>

\* The catch block without the two calls that clear the live answer.
CatchLeavesStream(t, lost) ==
  /\ error' = ErrorText
  /\ now' = now + 1
  /\ isLoading' = FALSE
  /\ calls' = Without(t)
  /\ last' = [op |-> "finish", path |-> "catch", t |-> t, call |-> calls[t], lost |-> lost]
  /\ UNCHANGED <<config, analyzer, upload, messages, input, isStreaming, streamingMessage,
                 lastResponseId, tokenOrigin, chainId, ids, nTurns>>

\* The catch and finally blocks.  As in Finalize, what the turn awaited took
\* time: the clock reads later than it did in sendMessage.
Catch(t, lost) ==
  /\ error' = ErrorText
  /\ now' = now + 1
  /\ isStreaming' = IF build = "guide" THEN FALSE ELSE isStreaming
  /\ streamingMessage' = IF build = "guide" THEN <<>> ELSE streamingMessage
  /\ isLoading' = FALSE
  /\ calls' = Without(t)
  /\ last' = [op |-> "finish", path |-> "catch", t |-> t, call |-> calls[t], lost |-> lost]
  /\ UNCHANGED <<config, analyzer, upload, messages, input, lastResponseId, tokenOrigin, chainId, ids,
                 nTurns>>

\* History: the service announced an id for the turn, streamed, sent its
\* completion last and closed the stream.
Completes(call) ==
  /\ call.srv = "closed"
  /\ call.loc.responseId # ""
  /\ call.sent # <<>>
  /\ Last(call.sent).type = "complete"
  /\ \A i \in 1..Len(call.sent) : call.sent[i].type # "error"

\* The end of the try block and the finally block.  The response was awaited
\* over the network: the clock reads later here than it did in sendMessage.
\* The id of the assistant message is (Date.now() + 1).toString().
Finalize(t, content, citations, responseId, call) ==
  /\ messages' = Append(messages, AssistantMessage(content, citations, responseId))
  /\ now' = now + 1
  /\ ids' = Append(ids, now' + 1)
  /\ lastResponseId' = responseId
  /\ tokenOrigin' = calls[t].req.vectorStoreId
  /\ chainId' = IF Completes(call) /\ ~call.wasReset THEN call.loc.responseId ELSE chainId
  /\ streamingMessage' = IF build = "guide" THEN <<>> ELSE streamingMessage
  /\ isStreaming' = IF build = "guide" THEN FALSE ELSE isStreaming
  /\ isLoading' = FALSE
  /\ calls' = Without(t)
  /\ last' = [op |-> "finish", path |-> "ok", t |-> t, call |-> call, lost |-> FALSE]
  /\ UNCHANGED <<config, analyzer, upload, input, error, nTurns>>

\* Frame conditions of the steps that only move one invocation along.
OnlyCall(t, call) ==
  /\ calls' = [calls EXCEPT ![t] = call]
  /\ last' = Other
  /\ UNCHANGED <<config, now, analyzer, upload, messages, input, isLoading, error,
                 lastResponseId, isStreaming, tokenOrigin, chainId, ids, nTurns>>

\* fetch rejects: the request or its response is lost in transport.
FetchReject(t) ==
  /\ t \in Live
  /\ calls[t].pc = "fetch"
  /\ Catch(t, TRUE)

\* The chat route's POST up to `return new Response(readableStream, ...)`, or
\* to one of its JSON error replies.
RoutePOST(t, createThrows) ==
  /\ t \in Live
  /\ calls[t].srv = "pending"
  /\ LET st == RouteStatus(calls[t].req, createThrows)
     IN OnlyCall(t, [calls[t] EXCEPT !.status = st,
                                     !.asked = RouteAsks(calls[t].req),
                                     !.srv = IF st = 200 THEN "open" ELSE "replied"])
  /\ UNCHANGED streamingMessage

\* `await fetch` resolves with the response's status line and headers.
FetchResolve(t) ==
  /\ t \in Live
  /\ calls[t].pc = "fetch"
  /\ calls[t].srv # "pending"
  /\ IF calls[t].status # 200
     THEN Catch(t, FALSE)
     ELSE /\ OnlyCall(t, [calls[t] EXCEPT !.pc = IF build = "src" THEN "body" ELSE "read"])
          /\ UNCHANGED streamingMessage

\* One iteration of the route's loop over the upstream events.
RouteEvent(t, event, maxEvents) ==
  /\ t \in Live
  /\ calls[t].srv = "open"
  /\ calls[t].n < maxEvents
  /\ LET r == RouteSwitch(calls[t].loc, event)
     IN OnlyCall(t, [calls[t] EXCEPT
                       !.n = @ + 1,
                       !.ups = Append(@, event),
                       !.loc = r.loc,
                       !.sent = @ \o r.out,
                       !.wire = @ \o (IF r.out = <<>> THEN <<>> ELSE Frame(r.out[1]))])
  /\ UNCHANGED streamingMessage

\* The upstream iteration ends: controller.close().
RouteClose(t) ==
  /\ t \in Live
  /\ calls[t].srv = "open"
  /\ OnlyCall(t, [calls[t] EXCEPT !.srv = "closed"])
  /\ UNCHANGED streamingMessage

\* The upstream iteration throws: controller.error(error) drops what is queued.
RouteThrow(t) ==
  /\ t \in Live
  /\ calls[t].srv = "open"
  /\ OnlyCall(t, [calls[t] EXCEPT !.srv = "errored", !.wire = <<>>])
  /\ UNCHANGED streamingMessage

\* components/PDFChat.tsx: `await response.json()` on a 200 response, and the
\* rest of the try block.
ResponseJson(t) ==
  /\ t \in Live
  /\ calls[t].pc = "body"
  /\ calls[t].srv \in {"closed", "errored"}
  /\ IF calls[t].srv = "closed" /\ CanParse(calls[t].wire)
     THEN LET data == Parse(calls[t].wire)
          IN Finalize(t, data.response,
                      IF "citations" \in DOMAIN data THEN data.citations ELSE <<>>,
                      data.responseId, calls[t])
     ELSE Catch(t, FALSE)

\* Streaming client: reader.read() returns a chunk, which is decoded and folded.
ReaderChunk(t, k) ==
  /\ t \in Live
  /\ calls[t].pc = "read"
  /\ k \in 1..Len(calls[t].wire)
  /\ LET acc == ProcessChunk(calls[t].acc, SubSeq(calls[t].wire, 1, k))
     IN /\ OnlyCall(t, [calls[t] EXCEPT
                          !.acc = acc,
                          !.wire = SubSeq(@, k + 1, Len(@))])
        /\ streamingMessage' = IF acc.fullResponse # calls[t].acc.fullResponse
                               THEN acc.fullResponse ELSE streamingMessage

\* Streaming client: reader.read() returns done, and the final message is added.
ReaderDone(t) ==
  /\ t \in Live
  /\ calls[t].pc = "read"
  /\ calls[t].wire = <<>>
  /\ calls[t].srv = "closed"
  /\ Finalize(t, calls[t].acc.fullResponse, calls[t].acc.citations,
              calls[t].acc.responseId, calls[t])

\* Streaming client: reader.read() rejects.
ReaderThrow(t) ==
  /\ t \in Live
  /\ calls[t].pc = "read"
  /\ calls[t].srv = "errored"
  /\ Catch(t, FALSE)

\* ------------------------------------------------- PDFUpload, PDFAnalyzer
\* The vectorStoreId of a 200 answer of the upload route.
UploadedStore(i) ==
  IF build = "src"
  THEN (IF envStore = UNDEFINED THEN NULL ELSE envStore)
  ELSE <<"vs1", "vs2", "vs3", "vs4">>[i]

\* History of a 200 answer of the upload route: whether the file was added to
\* the vector store of the answer.  The route under src skips the addition
\* without a configured store and swallows its failure; the route of the guide
\* answers 500 when the addition throws.
Attachments ==
  IF build = "src"
  THEN (IF envStore = UNDEFINED THEN {FALSE} ELSE BOOLEAN)
  ELSE {TRUE}

\* onDrop with one PDF, and uploadFiles up to its await.
OnDrop(maxUploads) ==
  /\ Len(uploadedFiles) < maxUploads
  /\ uploadedFiles' = Append(uploadedFiles, [status |-> "uploading", vectorStoreId |-> UNDEFINED])
  /\ isUploading' = TRUE
  /\ last' = Other
  /\ UNCHANGED <<config, now, analyzer, chat, calls, nTurns>>

\* The reset effect of PDFChat, which runs when onNewPDF has changed.
ResetEffect(onNewPDF) ==
  IF onNewPDF
  THEN /\ messages' = <<>>
       /\ lastResponseId' = NULL
       /\ error' = NULL
       /\ tokenOrigin' = NULL
       /\ chainId' = NULL
       /\ ids' = <<>>
       /\ calls' = [u \in Live |-> [calls[u] EXCEPT !.wasReset = TRUE]]
  ELSE UNCHANGED <<messages, lastResponseId, error, tokenOrigin, chainId, ids, calls>>

\* The upload's fetch settles: the rest of the loop body of uploadFiles, with
\* handleUploadSuccess and the effect its state change triggers.
UploadSettle(i, ok) ==
  /\ i \in 1..Len(uploadedFiles)
  /\ uploadedFiles[i].status = "uploading"
  /\ isUploading' = FALSE
  /\ IF ok
     THEN /\ uploadedFiles' = [uploadedFiles EXCEPT ![i] =
                                 [status |-> "success", vectorStoreId |-> UploadedStore(i)]]
          /\ vectorStoreId' = UploadedStore(i)
          /\ newPDFUploaded' = TRUE
          /\ timers' = timers + 1
          /\ IF newPDFUploaded
             THEN UNCHANGED <<messages, lastResponseId, error, tokenOrigin, chainId, ids, calls>>
             ELSE ResetEffect(TRUE)
          /\ \E attached \in Attachments :
               last' = [op |-> "uploadSuccess", effect |-> ~newPDFUploaded,
                        changed |-> UploadedStore(i) # vectorStoreId,
                        attached |-> attached]
     ELSE /\ uploadedFiles' = [uploadedFiles EXCEPT ![i].status = "error"]
          /\ last' = Other
          /\ UNCHANGED <<analyzer, messages, lastResponseId, error, tokenOrigin, chainId, ids, calls>>
  /\ UNCHANGED <<config, now, input, isLoading, streamingMessage, isStreaming, nTurns>>

\* setTimeout(() => setNewPDFUploaded(false), 100)
TimerFire ==
  /\ timers > 0
  /\ timers' = timers - 1
  /\ newPDFUploaded' = FALSE
  /\ ResetEffect(FALSE)
  /\ last' = Other
  /\ UNCHANGED <<config, now, vectorStoreId, upload, input, isLoading, streamingMessage,
                 isStreaming, nTurns>>

\* The steps of the program and of its environment, within the given bounds.
Step(maxTurns, maxUploads, maxEvents) ==
  \/ \E v \in Inputs : SetInput(v)
  \/ SendMessage(maxTurns)
  \/ \E t \in 1..maxTurns : FetchReject(t)
  \/ \E t \in 1..maxTurns, createThrows \in BOOLEAN : RoutePOST(t, createThrows)
  \/ \E t \in 1..maxTurns : FetchResolve(t)
  \/ \E t \in 1..maxTurns : \E event \in UpstreamEvents(t) : RouteEvent(t, event, maxEvents)
  \/ \E t \in 1..maxTurns : RouteClose(t)
  \/ \E t \in 1..maxTurns : RouteThrow(t)
  \/ \E t \in 1..maxTurns : ResponseJson(t)
  \/ \E t \in 1..maxTurns : \E k \in 1..(Len(Frame(NoObj)) * maxEvents) : ReaderChunk(t, k)
  \/ \E t \in 1..maxTurns : ReaderDone(t)
  \/ \E t \in 1..maxTurns : ReaderThrow(t)
  \/ OnDrop(maxUploads)
  \/ \E i \in 1..maxUploads, ok \in BOOLEAN : UploadSettle(i, ok)
  \/ TimerFire

Next == Step(MaxTurns, MaxUploads, MaxEvents)

Spec == Init /\ [][Next]_vars

NextStream == Step(StreamTurns, StreamUploads, StreamEvents)

SpecStream == Init /\ [][NextStream]_vars

\* The route's loop when the upstream stream is the scripted one.
RouteScript(t) ==
  /\ t \in Live
  /\ calls[t].n < Len(Scenario)
  /\ RouteEvent(t, Scenario[calls[t].n + 1], Len(Scenario))

NextScenario ==
  \/ \E v \in Inputs : SetInput(v)
  \/ SendMessage(ScenarioTurns)
  \/ \E t \in 1..ScenarioTurns : FetchReject(t)
  \/ \E t \in 1..ScenarioTurns, createThrows \in BOOLEAN : RoutePOST(t, createThrows)
  \/ \E t \in 1..ScenarioTurns : FetchResolve(t)
  \/ \E t \in 1..ScenarioTurns : RouteScript(t)
  \/ \E t \in 1..ScenarioTurns : RouteClose(t)
  \/ \E t \in 1..ScenarioTurns : RouteThrow(t)
  \/ \E t \in 1..ScenarioTurns : ResponseJson(t)
  \/ \E t \in 1..ScenarioTurns :
       \E k \in 1..(Len(Frame(NoObj)) * Len(Scenario)) : ReaderChunk(t, k)
  \/ \E t \in 1..ScenarioTurns : ReaderDone(t)
  \/ \E t \in 1..ScenarioTurns : ReaderThrow(t)
  \/ OnDrop(ScenarioUploads)
  \/ \E i \in 1..ScenarioUploads, ok \in BOOLEAN : UploadSettle(i, ok)
  \/ TimerFire

SpecScenario == Init /\ [][NextScenario]_vars

\* ---- the client on an arbitrary response body
\* The frames a body is made of: three the streaming client has a branch for,
\* one whose payload is not JSON, one whose type no client knows.
WellFormed(obj) == [ok |-> TRUE, wire |-> Frame(obj)]

FrameKinds ==
  { WellFormed([type |-> "delta", content |-> <<"a">>]),
    WellFormed([type |-> "delta", content |-> <<"b">>]),
    WellFormed([type |-> "responseId", responseId |-> "r1"]),
    [ok |-> FALSE, wire |-> <<DataPrefix, Lit("{oops"), NL, NL>>],
    [ok |-> FALSE, wire |-> Frame([type |-> "ping"])] }

Bodies == UNION {[1..n -> FrameKinds] : n \in 0..DecodeFrames}

RECURSIVE WireOf(_)
\* The bytes of a list of frames.
WireOf(frames) == IF frames = <<>> THEN <<>> ELSE Head(frames).wire \o WireOf(Tail(frames))

\* A 200 response whose body is complete is being read by sendMessage: the
\* state after an upload, sendMessage("q") and the resolution of fetch, with a
\* body drawn from Bodies instead of one written by the chat route.
InitDecode ==
  /\ build \in {"src", "guide"}
  /\ envStore = IF build = "src" THEN "vs_env" ELSE UNDEFINED
  /\ vectorStoreId = IF build = "src" THEN "vs_env" ELSE "vs1"
  /\ newPDFUploaded = FALSE
  /\ timers = 0
  /\ messages = <<UserMessage(<<"q">>)>>
  /\ ids = <<0>>
  /\ now = 0
  /\ input = <<>>
  /\ isLoading = TRUE
  /\ error = NULL
  /\ lastResponseId = NULL
  /\ streamingMessage = <<>>
  /\ isStreaming = (build = "guide")
  /\ uploadedFiles = <<[status |-> "success", vectorStoreId |-> vectorStoreId]>>
  /\ isUploading = FALSE
  /\ \E body \in Bodies :
       calls = (1 :> [pc |-> IF build = "src" THEN "body" ELSE "read",
                      req |-> RequestBody(<<"q">>, vectorStoreId, NULL),
                      reqOrigin |-> NULL,
                      status |-> 200, srv |-> "closed", n |-> 0, loc |-> RouteLocals0,
                      wire |-> WireOf(body),
                      acc |-> ClientLocals0,
                      pre |-> [messages |-> <<>>, token |-> NULL],
                      wasReset |-> FALSE, sent |-> <<>>,
                      ups |-> <<>>, asked |-> TRUE,
                      body |-> body])
  /\ nTurns = 1
  /\ tokenOrigin = NULL
  /\ chainId = NULL
  /\ last = Other

\* reader.read() returns a chunk that ends at the end of a line.
ReaderLines(t, k) ==
  /\ t \in Live
  /\ k \in 1..Len(calls[t].wire)
  /\ calls[t].wire[k] = NL
  /\ ReaderChunk(t, k)

NextDecode ==
  \/ \E k \in 1..(Len(Frame(NoObj)) * DecodeFrames) : ReaderLines(1, k)
  \/ ReaderDone(1)
  \/ ResponseJson(1)

SpecDecode == InitDecode /\ [][NextDecode]_vars

\* ---- the chat route on an arbitrary request
\* The JSON bodies a client may post: with or without a message, which may be
\* empty; with a vectorStoreId that may be undefined, null or empty; with or
\* without a previousResponseId.
Requests ==
  [message : {<<>>, <<"q">>}, vectorStoreId : {UNDEFINED, NULL, "", "vs1"},
   previousResponseId : {NULL, "", "r1"}]
    \cup [vectorStoreId : {UNDEFINED, NULL, "", "vs1"},
          previousResponseId : {NULL, "", "r1"}]

\* A request drawn from Requests is on its way to the route, and the session
\* awaits the answer as after sendMessage.
InitRoute ==
  /\ build \in {"src", "guide"}
  /\ envStore = IF build = "src" THEN "vs_env" ELSE UNDEFINED
  /\ vectorStoreId = IF build = "src" THEN "vs_env" ELSE "vs1"
  /\ newPDFUploaded = FALSE
  /\ timers = 0
  /\ messages = <<UserMessage(<<"q">>)>>
  /\ ids = <<0>>
  /\ now = 0
  /\ input = <<>>
  /\ isLoading = TRUE
  /\ error = NULL
  /\ lastResponseId = NULL
  /\ streamingMessage = <<>>
  /\ isStreaming = (build = "guide")
  /\ uploadedFiles = <<[status |-> "success", vectorStoreId |-> vectorStoreId]>>
  /\ isUploading = FALSE
  /\ \E req \in Requests :
       calls = (1 :> [pc |-> "fetch",
                      req |-> req,
                      reqOrigin |-> NULL,
                      status |-> 0, srv |-> "pending", n |-> 0, loc |-> RouteLocals0,
                      wire |-> <<>>,
                      acc |-> ClientLocals0,
                      pre |-> [messages |-> <<>>, token |-> NULL],
                      wasReset |-> FALSE, sent |-> <<>>,
                      ups |-> <<>>, asked |-> FALSE])
  /\ nTurns = 1
  /\ tokenOrigin = NULL
  /\ chainId = NULL
  /\ last = Other

NextRoute ==
  \/ FetchReject(1)
  \/ \E createThrows \in BOOLEAN : RoutePOST(1, createThrows)
  \/ FetchResolve(1)
  \/ \E event \in UpstreamEvents(1) : RouteEvent(1, event, MaxEvents)
  \/ RouteClose(1)
  \/ RouteThrow(1)
  \/ ResponseJson(1)
  \/ \E k \in 1..(Len(Frame(NoObj)) * MaxEvents) : ReaderChunk(1, k)
  \/ ReaderDone(1)
  \/ ReaderThrow(1)

SpecRoute == InitRoute /\ [][NextRoute]_vars

\* ---- the clock
\* Time passes: Date.now() reads one more.
Tick(maxClock) ==
  /\ now < maxClock
  /\ now' = now + 1
  /\ last' = Other
  /\ UNCHANGED <<config, analyzer, upload, chat, calls, nTurns>>

NextClock ==
  \/ Step(ClockTurns, ClockUploads, ClockEvents)
  \/ Tick(MaxClock)

SpecClock == Init /\ [][NextClock]_vars

\* ---- scheduling
NextLive == Step(LiveTurns, LiveUploads, LiveEvents)

\* What runs once it can: the route's handler up to its response, and the
\* continuations of sendMessage when the awaited response, chunk or end of
\* stream is there.  The remote service is not bound to deliver an event or to
\* end its stream, and nothing in the program waits on a clock for it.
Scheduling ==
  \A t \in 1..LiveTurns :
    /\ WF_vars(\E createThrows \in BOOLEAN : RoutePOST(t, createThrows))
    /\ WF_vars(FetchResolve(t))
    /\ WF_vars(ResponseJson(t))
    /\ WF_vars(\E k \in 1..(Len(Frame(NoObj)) * LiveEvents) : ReaderChunk(t, k))
    /\ WF_vars(ReaderDone(t))
    /\ WF_vars(ReaderThrow(t))

SpecLive == Init /\ [][NextLive]_vars /\ Scheduling

NextChain == Step(ChainTurns, ChainUploads, ChainEvents)

SpecChain == Init /\ [][NextChain]_vars

\* ------------------------------------------------------------ vocabulary
\* The step just taken ended turn last.t: last.call is the invocation as it was
\* when it ended, last.path the block that ended it.
Finished == last.op = "finish"

HasFrame(call, type) == \E i \in 1..Len(call.sent) : call.sent[i].type = type

\* The user Message of a turn.
UserOf(call) ==
  [role |-> "user", content |-> call.req.message, citations |-> <<>>,
   responseId |-> UNDEFINED]

Assistants(transcript) == {i \in 1..Len(transcript) : transcript[i].role = "assistant"}

\* What happened to the turn, told from what the service and the transport did
\* and not from the block of sendMessage that ran.
RejectedStatus(f) == ~f.lost /\ f.call.status \in {400, 500}
TransportFailure(f) == f.lost \/ f.call.srv = "errored"
ErrorEvent(f) == ~f.lost /\ f.call.srv = "closed" /\ HasFrame(f.call, "error")
PrematureEnd(f) ==
  /\ ~f.lost
  /\ f.call.srv = "closed"
  /\ ~HasFrame(f.call, "complete")
  /\ ~HasFrame(f.call, "error")
TurnFailed(f) == RejectedStatus(f) \/ TransportFailure(f) \/ ErrorEvent(f) \/ PrematureEnd(f)

\* The service announced the turn's id, streamed, completed and closed.
ServiceCompleted(f) ==
  /\ ~f.lost
  /\ f.call.srv = "closed"
  /\ f.call.loc.responseId = RespId(f.t)
  /\ f.call.sent # <<>>
  /\ Last(f.call.sent).type = "complete"
  /\ ~HasFrame(f.call, "error")

\* ----------------------------------------------------------------- claims
\* C1: a turn that completes successfully (the service completed it, the try
\* block of sendMessage ran to its end, no reset in between) leaves the
\* transcript two messages longer than before the turn, the user message then
\* one assistant message, and lastResponseId equal to the turn's id.
C1_SuccessfulTurnCommits ==
  (Finished /\ last.path = "ok" /\ ~last.call.wasReset /\ ServiceCompleted(last))
    => /\ Len(messages) = Len(last.call.pre.messages) + 2
       /\ SubSeq(messages, 1, Len(messages) - 1) =
            Append(last.call.pre.messages, UserOf(last.call))
       /\ Last(messages).role = "assistant"
       /\ lastResponseId = RespId(last.t)

\* C2: a turn that fails (rejected status, transport failure, error event, or
\* stream end without a terminal event) appends no assistant message and
\* leaves lastResponseId at its value from before the turn.
C2_FailedTurnCommitsNothing ==
  (Finished /\ ~last.call.wasReset /\ TurnFailed(last))
    => /\ Cardinality(Assistants(messages)) =
            Cardinality(Assistants(last.call.pre.messages))
       /\ lastResponseId = last.call.pre.token

\* C3: the reset that a new upload triggers leaves an empty transcript, a null
\* lastResponseId and, also with a turn in flight, isLoading false.
C3_ResetCancelsTurn ==
  (last.op = "uploadSuccess" /\ last.effect)
    => /\ messages = <<>>
       /\ lastResponseId = NULL
       /\ ~isLoading

C5_HandleChangeResets ==
  (last.op = "uploadSuccess" /\ last.changed)
    => /\ messages = <<>>
       /\ lastResponseId = NULL

\* C6: a call of sendMessage while isLoading changes neither the transcript,
\* the token, the live answer state, the error, nor the requests outstanding.
C6_SendWhileLoadingIsNoop ==
  [][(isLoading /\ last'.op \in {"send", "sendNoop"})
       => UNCHANGED <<messages, lastResponseId, streamingMessage, isStreaming,
                      isLoading, error, input, calls, nTurns>>]_vars

C6_Witness == last.op = "sendNoop" /\ isLoading /\ Live # {}

\* C7: at most one chat request is outstanding, and it is outstanding exactly
\* while isLoading.
C7_OneLiveTurn ==
  /\ Cardinality(Live) <= 1
  /\ isLoading <=> Live # {}

C7_Witness == nTurns = 2 /\ Cardinality(Live) = 1 /\ last.op = "sendNoop"

RECURSIVE DeltaText(_)
\* The concatenation, in order, of the contents of the delta objects of a list.
DeltaText(objs) ==
  IF objs = <<>> THEN <<>>
  ELSE (IF Head(objs).type = "delta" THEN Head(objs).content ELSE <<>>)
         \o DeltaText(Tail(objs))

\* C8: at every point of a turn the accumulated answer text is the ordered
\* concatenation of the deltas seen so far: the route's responseContent of the
\* deltas it relayed, the client's fullResponse of the deltas it decoded.
C8_TextIsConcatenationOfDeltas ==
  \A t \in Live :
    /\ calls[t].loc.responseContent = DeltaText(calls[t].sent)
    /\ calls[t].acc.fullResponse = DeltaText(calls[t].acc.decoded)

C8_Witness ==
  \E t \in Live :
    /\ calls[t].acc.fullResponse = <<"a", "b">>
    /\ Len(calls[t].acc.decoded) = 2
    /\ calls[t].loc.responseContent = <<"a", "b">>

\* C9: when the streaming client has read a stream to its end, the objects it
\* decoded are the objects the route framed, whatever the chunks were.
C9_DecoderBuffersAcrossChunks ==
  (Finished /\ last.call.pc = "read" /\ last.call.srv = "closed")
    => last.call.acc.decoded = last.call.sent

\* C10: a stream that closes without a terminal event fails the turn: the
\* transcript is the earlier transcript and the user message, and
\* lastResponseId is unchanged.
C10_PrematureEndFails ==
  (Finished /\ ~last.call.wasReset /\ PrematureEnd(last))
    => /\ messages = Append(last.call.pre.messages, UserOf(last.call))
       /\ lastResponseId = last.call.pre.token

\* ------------------------------------------------------- claims C11 to C20
Terminal(obj) == obj.type \in {"complete", "error"}

\* The objects of a list up to and including its first terminal one.
UpToTerminal(objs) ==
  IF \E i \in 1..Len(objs) : Terminal(objs[i])
  THEN SubSeq(objs, 1, CHOOSE i \in 1..Len(objs) :
                         Terminal(objs[i]) /\ \A j \in 1..(i - 1) : ~Terminal(objs[j]))
  ELSE objs

\* The service's stream of the turn ended by an error event: the first terminal
\* frame the route wrote is the error frame, and the stream was closed.
EndedByError(f) ==
  /\ ~f.lost
  /\ f.call.srv = "closed"
  /\ UpToTerminal(f.call.sent) # <<>>
  /\ Last(UpToTerminal(f.call.sent)).type = "error"

\* C11: a turn whose stream carried an error event ends as a failure: no
\* assistant message is added for it, lastResponseId keeps its value from
\* before the turn, error is set and isLoading is false.
C11_ErrorEventFailsTurn ==
  (Finished /\ ~last.call.wasReset /\ EndedByError(last))
    => /\ messages = Append(last.call.pre.messages, UserOf(last.call))
       /\ lastResponseId = last.call.pre.token
       /\ error # NULL
       /\ ~isLoading

\* C12: the previousResponseId of a request just sent is the id the service
\* gave the last turn that completed since the last reset, and null when there
\* is no such turn.
C12_RequestCarriesLastCompletedId ==
  (last.op = "send") => calls[last.t].req.previousResponseId = chainId

\* The scripted stream was relayed to its end and the stream closed.
ScenarioServed(f) ==
  /\ ~f.lost
  /\ f.call.srv = "closed"
  /\ f.call.n = Len(Scenario)

\* C13: when the route has relayed the scripted stream (created, "The ",
\* "document ", "discusses X.", the citation of doc.pdf, completed with id
\* "r1") and the client has consumed it, the last message of the transcript is
\* the assistant message with the text "The document discusses X.", the one
\* citation {f1, doc.pdf} and lastResponseId is "r1".
C13_ScriptedTurnEndToEnd ==
  (Finished /\ ~last.call.wasReset /\ ScenarioServed(last))
    => /\ Last(messages).role = "assistant"
       /\ Last(messages).content = DeltaThe \o DeltaDocument \o DeltaDiscusses
       /\ Last(messages).citations = <<[file_id |-> "f1", filename |-> "doc.pdf"]>>
       /\ lastResponseId = "r1"

\* The well-formed frames of a body, in their order.
WellFormedOf(body) == SelectSeq(body, LAMBDA f : f.ok)

\* What the streaming client accumulates from a body read in one piece.
FoldOf(body) == ProcessChunk(ClientLocals0, WireOf(body))

\* C14: a body with malformed frames (a payload that is not JSON, an object of
\* an unknown type) ends the turn as the same body without them does: the
\* streaming client finalizes the message that the well-formed frames alone
\* fold to, and components/PDFChat.tsx takes the same block of sendMessage.
C14_MalformedFramesSkipped ==
  Finished =>
    LET clean == WellFormedOf(last.call.body)
    IN IF build = "guide"
       THEN /\ last.path = "ok"
            /\ messages = <<UserOf(last.call),
                             AssistantMessage(FoldOf(clean).fullResponse,
                                              FoldOf(clean).citations,
                                              FoldOf(clean).responseId)>>
            /\ lastResponseId = FoldOf(clean).responseId
            /\ error = NULL
       ELSE last.path = IF CanParse(WireOf(clean)) THEN "ok" ELSE "catch"

\* A delta, a frame that is not JSON, a frame of unknown type and a second
\* delta were read, and the message holds both deltas.
C14_Witness ==
  /\ Finished
  /\ build = "guide"
  /\ Len(last.call.body) = 4
  /\ last.call.body[1].ok /\ ~last.call.body[2].ok /\ ~last.call.body[3].ok
  /\ last.call.body[2] # last.call.body[3]
  /\ last.call.body[4].ok
  /\ Last(messages).content = <<"a", "b">>

\* C15: every failed turn ends with error set, isLoading false, lastResponseId
\* at its value from before the turn and no assistant message added, so that
\* sendMessage with a question is accepted next.
C15_FailuresEndAlike ==
  (Finished /\ ~last.call.wasReset /\ TurnFailed(last))
    => /\ error # NULL
       /\ ~isLoading
       /\ lastResponseId = last.call.pre.token
       /\ Cardinality(Assistants(messages)) =
            Cardinality(Assistants(last.call.pre.messages))
       /\ SendGuard(<<"q">>, isLoading, vectorStoreId)

\* C16: the end of a turn that was in flight when the session was reset
\* changes neither the transcript nor lastResponseId.
C16_ResetTurnCommitsNothing ==
  [][(last'.op = "finish" /\ last'.call.wasReset)
       => /\ messages' = messages
          /\ lastResponseId' = lastResponseId]_vars

\* C17: a call of sendMessage with an input that is empty or blank, or with no
\* vectorStoreId, changes nothing: no message, no request, isLoading and error
\* as they were.
C17_RejectedSendIsSilent ==
  [][(last'.op \in {"send", "sendNoop"}
        /\ (Trim(input) = <<>> \/ ~Truthy(vectorStoreId)))
       => UNCHANGED <<messages, calls, nTurns, isLoading, error, lastResponseId,
                      input, streamingMessage, isStreaming>>]_vars

\* sendMessage has just returned at its guard on a blank input, with a corpus
\* handle and no turn in flight.
C17_Witness ==
  /\ last.op = "sendNoop"
  /\ input = <<" ">>
  /\ Truthy(vectorStoreId)
  /\ ~isLoading
  /\ error = NULL
  /\ messages = <<>>
  /\ Live = {}

\* C18: after a failed turn the transcript is the transcript from before the
\* turn followed by the turn's user message, once.
C18_UserMessageRemains ==
  (Finished /\ ~last.call.wasReset /\ TurnFailed(last))
    => messages = Append(last.call.pre.messages, UserOf(last.call))

\* C19: the citations of the finalized message of a completed turn are the
\* file citations the route collected from the turn's events, in their order.
C19_CitationsInArrivalOrder ==
  (Finished /\ last.path = "ok" /\ ~last.call.wasReset
     /\ last.call.sent # <<>> /\ Last(last.call.sent).type = "complete")
    => Last(messages).citations = last.call.loc.citations

\* C20: when the client has read a terminal frame (complete or error), the
\* frames after it do not count: the text of a message finalized for the turn
\* is the concatenation of the deltas read up to the terminal frame.
C20_NothingAfterTerminal ==
  (Finished /\ last.path = "ok" /\ ~last.call.wasReset
     /\ \E i \in 1..Len(last.call.acc.decoded) : Terminal(last.call.acc.decoded[i]))
    => Last(messages).content = DeltaText(UpToTerminal(last.call.acc.decoded))

\* ------------------------------------------------------- claims C21 to C30
\* The objects appended to a history list by the step.
Added(before, after) == SubSeq(after, Len(before) + 1, Len(after))

OnlyStatus(objs) == objs # <<>> /\ \A i \in 1..Len(objs) : objs[i].type = "status"

\* C21: a status event changes nothing but the status shown: when the route
\* writes a status frame its responseContent, citations and responseId are as
\* before, and when the client reads nothing but status frames its text,
\* citations and responseId, the transcript and lastResponseId are as before.
C21_StatusChangesNothing ==
  [][\A t \in Live \cap DOMAIN calls' :
       /\ OnlyStatus(Added(calls[t].sent, calls'[t].sent))
            => calls'[t].loc = calls[t].loc
       /\ OnlyStatus(Added(calls[t].acc.decoded, calls'[t].acc.decoded))
            => /\ calls'[t].acc.fullResponse = calls[t].acc.fullResponse
               /\ calls'[t].acc.citations = calls[t].acc.citations
               /\ calls'[t].acc.responseId = calls[t].acc.responseId
               /\ streamingMessage' = streamingMessage
               /\ messages' = messages
               /\ lastResponseId' = lastResponseId]_vars

\* The client has read a delta and, after it, a status frame, and still holds
\* the text of the delta.
C21_Witness ==
  \E t \in Live :
    /\ Len(calls[t].acc.decoded) = 2
    /\ calls[t].acc.decoded[1].type = "delta"
    /\ calls[t].acc.decoded[2].type = "status"
    /\ calls[t].acc.fullResponse = <<"a">>
    /\ calls[t].loc.responseContent = <<"a">>

IsPrefix(s, r) == Len(s) <= Len(r) /\ SubSeq(r, 1, Len(s)) = s

\* The step is the reset of the session for a new corpus.
ResetStep == last'.op = "uploadSuccess" /\ last'.effect

\* C22: but for the reset, every step leaves the transcript a prefix of the
\* transcript after it.
C22_TranscriptAppendOnly ==
  [][~ResetStep => IsPrefix(messages, messages')]_vars

\* Two turns have been added to the transcript, one after the other.
C22_Witness ==
  /\ Len(messages) = 4
  /\ messages[1].role = "user" /\ messages[2].role = "assistant"
  /\ messages[3].role = "user" /\ messages[4].role = "assistant"

\* C23: but for the reset, an assistant message is added and lastResponseId
\* rewritten only by the end of the turn in flight, and not by a turn that a
\* reset has cancelled.
C23_OnlyActiveTurnCommits ==
  [][(~ResetStep
        /\ (lastResponseId' # lastResponseId
              \/ Cardinality(Assistants(messages')) # Cardinality(Assistants(messages))))
       => /\ last'.op = "finish"
          /\ last'.t \in Live
          /\ ~calls[last'.t].wasReset]_vars

\* C24: a turn that was accepted finishes: whenever isLoading is true it is
\* false again later, also when the service has opened its stream and sends
\* nothing more.
C24_TurnEventuallyFinishes == isLoading ~> ~isLoading

\* C25: a chat request is opened only by an accepted sendMessage, one per
\* call; a request that has reached the route is not sent again; and the end
\* of a turn, failed or not, leaves no request of that turn behind.
C25_NoAutomaticRetry ==
  [][/\ \A t \in DOMAIN calls' \ Live : last'.op = "send" /\ last'.t = t
     /\ last'.op = "send" => DOMAIN calls' \ Live = {last'.t}
     /\ \A t \in Live \cap DOMAIN calls' :
          calls[t].srv # "pending" => calls'[t].srv # "pending"
     /\ last'.op = "finish" => DOMAIN calls' = Live \ {last'.t}]_vars

\* The first turn has failed and the user has sent a second question: the one
\* request outstanding is that of the second turn.
C25_Witness ==
  /\ last.op = "send"
  /\ last.t = 2
  /\ Live = {2}
  /\ Len(messages) = 2
  /\ messages[1].role = "user" /\ messages[2].role = "user"

\* The text deltas among upstream events, and the delta frames among frames.
UpstreamDeltas(events) ==
  SelectSeq(events, LAMBDA e : e.type = "response.output_text.delta")

DeltaFrames(frames) == SelectSeq(frames, LAMBDA f : f.type = "delta")

\* C26: on every stream the delta frames the route has written are the text
\* deltas it has received, one for one and in order, and the response of a
\* complete frame is the concatenation of the delta frames written before it.
C26_RouteRelaysFaithfully ==
  \A t \in Live :
    /\ Len(DeltaFrames(calls[t].sent)) = Len(UpstreamDeltas(calls[t].ups))
    /\ \A i \in 1..Len(DeltaFrames(calls[t].sent)) :
         DeltaFrames(calls[t].sent)[i].content = UpstreamDeltas(calls[t].ups)[i].delta
    /\ \A i \in 1..Len(calls[t].sent) :
         calls[t].sent[i].type = "complete"
           => calls[t].sent[i].response = DeltaText(SubSeq(calls[t].sent, 1, i - 1))

\* The route has relayed the deltas "a" and "b" and then the completion.
C26_Witness ==
  \E t \in Live :
    /\ Len(calls[t].sent) = 3
    /\ calls[t].sent[1] = [type |-> "delta", content |-> <<"a">>]
    /\ calls[t].sent[2] = [type |-> "delta", content |-> <<"b">>]
    /\ calls[t].sent[3].type = "complete"
    /\ calls[t].sent[3].response = <<"a", "b">>
    /\ Len(calls[t].ups) = 3

\* C27: a turn that sendMessage records as successful leaves lastResponseId a
\* non-empty identifier, the one the service announced for the turn.
C27_SuccessHasTurnId ==
  (Finished /\ last.path = "ok" /\ ~last.call.wasReset)
    => /\ Truthy(lastResponseId)
       /\ lastResponseId = RespId(last.t)
       /\ Last(messages).responseId = lastResponseId

\* C28: every assistant message of the transcript stands right after a user
\* message.
C28_AssistantFollowsUser ==
  \A i \in Assistants(messages) : i > 1 /\ messages[i - 1].role = "user"

\* C29: after a successful upload the vectorStoreId handed to the chat session
\* is an identifier, not null, and the uploaded file was added to that store.
C29_UploadYieldsIndexedHandle ==
  (last.op = "uploadSuccess")
    => /\ Truthy(vectorStoreId)
       /\ last.attached

\* The request lacks a message or a vectorStoreId, or has an empty one.
Incomplete(req) ==
  \/ "message" \notin DOMAIN req
  \/ req.message = <<>>
  \/ ~Truthy(Field(req, "vectorStoreId"))

\* C30: the route answers a request without a message or without a
\* vectorStoreId, or with an empty one, with status 400 and does not call the
\* model service for it.
C30_IncompleteRequestIs400 ==
  \A t \in Live :
    (calls[t].srv # "pending" /\ Incomplete(calls[t].req))
      => /\ calls[t].status = 400
         /\ ~calls[t].asked

\* ------------------------------------------------------- claims C31 to C33
\* C32: whenever a file of the list has the status uploading, isUploading is
\* true.
C32_BusyFlagAccurate ==
  (\E i \in 1..Len(uploadedFiles) : uploadedFiles[i].status = "uploading") => isUploading

\* C33: whenever isLoading is false, the streaming text is empty and
\* isStreaming is false.
C33_LiveStateClearedWhenIdle ==
  ~isLoading => (streamingMessage = <<>> /\ ~isStreaming)

\* The streaming client had shown part of an answer when its read failed; the
\* turn has ended in the catch block.
C33_Witness ==
  /\ Finished
  /\ build = "guide"
  /\ last.path = "catch"
  /\ last.call.acc.fullResponse # <<>>
  /\ ~isLoading
  /\ error # NULL

\* C31: no two messages of the transcript have the same id.
C31_MessageIdsDistinct ==
  \A i, j \in 1..Len(ids) : i # j => ids[i] # ids[j]

====
